---- MODULE Spec2Model ----
(***************************************************************************)
(* A model of the two course notebooks                                     *)
(*   src/00_the_standard_workflow.ipynb   (notebook 00)                    *)
(*   src/01_the_human_in_the_loop.ipynb   (notebook 01)                    *)
(* Each notebook is a kernel namespace (the VARIABLES) and a list of       *)
(* cells (the actions).  Library calls are modelled by what they return:   *)
(* sklearn's confusion_matrix builds one row and column per label that     *)
(* occurs, a fitted classifier is the table of labels it predicts, a       *)
(* random split or fit is a choice over every outcome it can produce.      *)
(* Exceptions are values: [ok |-> FALSE, ...].                             *)
(***************************************************************************)
EXTENDS Integers, Sequences, FiniteSets, TLC

(***************************************************************************)
(* Bounds of the model.                                                    *)
(***************************************************************************)
\* longest test-label vector of the loss cells
MaxLen == 2

(***************************************************************************)
(* Notebook 01, loss cells: the kernel namespace.                          *)
(*   y_test, preds     the held-out labels and the predicted labels        *)
(*   tn, fp, fn, tp    the globals unpacked by the credit cost cell        *)
(*   cost              the global cost of the credit cost cell             *)
(*   (-1 stands for a name that is not bound yet)                          *)
(*   raised            whether the last cell ended in an exception         *)
(*   last              the cell or call that ran last                      *)
(*   call              the last my_scorer call: arguments and outcome      *)
(***************************************************************************)
VARIABLES y_test, preds, tn, fp, fn, tp, cost, raised, last, call

lossVars == <<y_test, preds, tn, fp, fn, tp, cost, raised, last, call>>

(***************************************************************************)
(* Notebook 00, the grid searches over the pipeline's parameters.          *)
(*   gs_scoring    "my_metric" for scoring=make_scorer(my_metric),         *)
(*                 "accuracy" for the searches without a scoring argument  *)
(*   gs_log        the fits made so far: parameters and fold of each       *)
(*   gs_k          (candidate, fold) fits evaluated so far                 *)
(*   gs_sum        per candidate, the sum of its test-fold scores so far   *)
(*   best_index    the winning candidate, 0 until fit() has finished       *)
(***************************************************************************)
VARIABLES gs_scoring, gs_k, gs_log, gs_sum, best_index

gridVars == <<gs_scoring, gs_k, gs_log, gs_sum, best_index>>

(***************************************************************************)
(* Notebook 00, deployment and the champion/challenger test.               *)
(*   dp_cell         the last of these cells that ran                      *)
(*   y_test_00       the arrhythmia test labels, one per row of X_test     *)
(*   model_pkl       the bytes of the file model.pkl, <<>> when absent     *)
(*   clf, clf_from_file, champion, challenger    model objects             *)
(*   preds_00        preds = clf_from_file.predict(X_test)                 *)
(*   f1_printed      the two F1 scores the comparison prints               *)
(*   pkl_log         the reads and writes of model.pkl so far: the cell,   *)
(*                   and the bytes read or written                         *)
(*   dp_raised       whether the last of these cells ended in an exception *)
(***************************************************************************)
VARIABLES dp_cell, y_test_00, model_pkl, clf, clf_from_file, champion, challenger,
          preds_00, f1_printed, pkl_log, dp_raised

deployVars == <<dp_cell, y_test_00, model_pkl, clf, clf_from_file, champion, challenger,
                preds_00, f1_printed, pkl_log, dp_raised>>

(***************************************************************************)
(* Notebook 00, the window-size experiment.                                *)
(*   test_rows       the index labels of arrh that the split put in X_test *)
(*   y_test_w        y_test, the labels of those rows                      *)
(*   w_done          iterations of the loop over wrange that have run      *)
(*   sliding         the index labels of the current window                *)
(*   accuracies      the F1 scores appended so far                         *)
(*   optimal_window  0 until the loop has finished                         *)
(***************************************************************************)
VARIABLES test_rows, y_test_w, w_done, sliding, accuracies, optimal_window

windowVars == <<test_rows, y_test_w, w_done, sliding, accuracies, optimal_window>>

(***************************************************************************)
(* Notebook 01, data fusion.                                               *)
(*   flows     the flow records, attack the attacked destination computers *)
(*   X         the feature table: its index and its rows                   *)
(*   y         the labels, fx_done whether the feature cell has run        *)
(***************************************************************************)
VARIABLES flows, attack, X, y, fx_done

flowVars == <<flows, attack, X, y, fx_done>>

(***************************************************************************)
(* Notebook 00, the pipeline of a feature selector and a classifier.       *)
(*   sel_k         the selector's k                                        *)
(*   pipe_fitted   whether fit() has run                                   *)
(*   sel_support   the columns the fitted selector keeps                   *)
(*   clf_features  the columns the classifier was fitted on                *)
(*   pipe_log      what each step was given, call after call               *)
(***************************************************************************)
VARIABLES sel_k, pipe_fitted, sel_support, clf_features, pipe_log

pipeVars == <<sel_k, pipe_fitted, sel_support, clf_features, pipe_log>>

(***************************************************************************)
(* Notebook 01, the check of the default classification threshold.         *)
(*   clf_proba      what the fitted classifier gives each row of X_test:   *)
(*                  the pair of class probabilities, as fractions          *)
(*   scores, preds_thr, preds_default, all_equal                           *)
(*                  the cell's globals (preds_thr is the cell's preds),    *)
(*                  scores empty until the cell has run                    *)
(***************************************************************************)
VARIABLES clf_proba, scores, preds_thr, preds_default, all_equal

thresholdVars == <<clf_proba, scores, preds_thr, preds_default, all_equal>>

(***************************************************************************)
(* Notebook 01, the accuracy computed without accuracy_score().            *)
(*   y_test_acc, preds_acc   the cell's y_test and preds                   *)
(*   tp_acc, tn_acc          the cell's tp and tn                          *)
(*   accuracy_printed        the fraction printed, empty until then        *)
(***************************************************************************)
VARIABLES y_test_acc, preds_acc, tp_acc, tn_acc, accuracy_printed

accuracyVars == <<y_test_acc, preds_acc, tp_acc, tn_acc, accuracy_printed>>

(***************************************************************************)
(* Notebook 00, the dataset of the final grid search.                      *)
(*   arrh_age       the age column of arrh as read, row by row             *)
(*   arrh_rows      the rows of arrh the grid search is fitted on          *)
(*   age_filtered   whether the filter has run                             *)
(***************************************************************************)
VARIABLES arrh_age, arrh_rows, age_filtered

filterVars == <<arrh_age, arrh_rows, age_filtered>>

(***************************************************************************)
(* Notebook 01, the sample weights.                                        *)
(*   n_train_noisy    len(y_train_noisy), the rows of the flows X_train    *)
(*   X_train_weight   the weight column of the arrhythmia X_train          *)
(*   weights          the global both weighting cells assign               *)
(*   weights_cell     the cell that assigned it last                       *)
(*   refit            how the weighted fit of that cell ended              *)
(***************************************************************************)
VARIABLES n_train_noisy, X_train_weight, weights, weights_cell, refit

weightVars == <<n_train_noisy, X_train_weight, weights, weights_cell, refit>>

(***************************************************************************)
(* Notebook 01, the heuristic on the number of unique ports.               *)
(*   X_train_ports   X_train['unique_ports'], row by row                   *)
(*   y_train_ports   y_train, the labels of those rows                     *)
(*   X_test_ports    X_test['unique_ports'], row by row                    *)
(*   avg_bad_ports   <<sum, count>>, a count of 0 being nan; empty until   *)
(*                   the cell has run                                      *)
(*   pred_port       the heuristic's labels of the test rows               *)
(***************************************************************************)
VARIABLES X_train_ports, y_train_ports, X_test_ports, avg_bad_ports, pred_port

heuristicVars == <<X_train_ports, y_train_ports, X_test_ports, avg_bad_ports, pred_port>>

(***************************************************************************)
(* Notebook 01, the heuristic that combines ports and packets.  The cell   *)
(* runs after the port heuristic, on the same split.                       *)
(*   X_train_cb, y_train_cb, X_test_cb                                     *)
(*                     the split: rows with unique_ports and               *)
(*                     average_packet, and the training labels             *)
(*   avg_bad_ports_cb  the global avg_bad_ports the port cell left         *)
(*   avg_bad_packet    <<sum, count>>, empty until the cell has run        *)
(*   pred_packet, pred_port_cb, pred_both   the cell's three label vectors *)
(***************************************************************************)
VARIABLES X_train_cb, y_train_cb, X_test_cb, avg_bad_ports_cb, avg_bad_packet,
          pred_packet, pred_port_cb, pred_both

combinedVars ==
    <<X_train_cb, y_train_cb, X_test_cb, avg_bad_ports_cb, avg_bad_packet,
      pred_packet, pred_port_cb, pred_both>>

(***************************************************************************)
(* Notebook 00, the feature extractor more_than_average.                   *)
(*   X_given          the array as the caller built it, row by row         *)
(*   X_arg            the caller's array object, which the call is handed  *)
(*   multiplier_arg   the multiplier of the call                           *)
(*   Z_out            the array returned, empty until the call             *)
(***************************************************************************)
VARIABLES X_given, X_arg, multiplier_arg, Z_out

transformVars == <<X_given, X_arg, multiplier_arg, Z_out>>

vars == <<lossVars, gridVars, deployVars, windowVars, flowVars, pipeVars, thresholdVars, accuracyVars, filterVars, weightVars, heuristicVars, combinedVars, transformVars>>

\* what the cells of one part leave alone
notLoss ==
    <<gridVars, deployVars, windowVars, flowVars, pipeVars,
      thresholdVars, accuracyVars, filterVars, weightVars, heuristicVars, combinedVars, transformVars>>

notGrid ==
    <<lossVars, deployVars, windowVars, flowVars, pipeVars,
      thresholdVars, accuracyVars, filterVars, weightVars, heuristicVars, combinedVars, transformVars>>

notDeploy ==
    <<lossVars, gridVars, windowVars, flowVars, pipeVars,
      thresholdVars, accuracyVars, filterVars, weightVars, heuristicVars, combinedVars, transformVars>>

notWindow ==
    <<lossVars, gridVars, deployVars, flowVars, pipeVars,
      thresholdVars, accuracyVars, filterVars, weightVars, heuristicVars, combinedVars, transformVars>>

notFlows ==
    <<lossVars, gridVars, deployVars, windowVars, pipeVars,
      thresholdVars, accuracyVars, filterVars, weightVars, heuristicVars, combinedVars, transformVars>>

notPipe ==
    <<lossVars, gridVars, deployVars, windowVars, flowVars,
      thresholdVars, accuracyVars, filterVars, weightVars, heuristicVars, combinedVars, transformVars>>

notThreshold ==
    <<lossVars, gridVars, deployVars, windowVars, flowVars,
      pipeVars, accuracyVars, filterVars, weightVars, heuristicVars, combinedVars, transformVars>>

notAccuracy ==
    <<lossVars, gridVars, deployVars, windowVars, flowVars,
      pipeVars, thresholdVars, filterVars, weightVars, heuristicVars, combinedVars, transformVars>>

notFilter ==
    <<lossVars, gridVars, deployVars, windowVars, flowVars,
      pipeVars, thresholdVars, accuracyVars, weightVars, heuristicVars, combinedVars, transformVars>>

notWeights ==
    <<lossVars, gridVars, deployVars, windowVars, flowVars,
      pipeVars, thresholdVars, accuracyVars, filterVars, heuristicVars, combinedVars, transformVars>>

notHeuristic ==
    <<lossVars, gridVars, deployVars, windowVars, flowVars,
      pipeVars, thresholdVars, accuracyVars, filterVars, weightVars, combinedVars, transformVars>>

notCombined ==
    <<lossVars, gridVars, deployVars, windowVars, flowVars,
      pipeVars, thresholdVars, accuracyVars, filterVars, weightVars, heuristicVars, transformVars>>

notTransform ==
    <<lossVars, gridVars, deployVars, windowVars, flowVars,
      pipeVars, thresholdVars, accuracyVars, filterVars, weightVars, heuristicVars, combinedVars>>

(***************************************************************************)
(* Label vectors.                                                          *)
(***************************************************************************)
BoolSeqs(n) == [1..n -> BOOLEAN]

LabelVectors == UNION {BoolSeqs(n) : n \in 1..MaxLen}

\* number of positions whose true label is a and whose predicted label is b
CountPairs(y_true, y_pred, a, b) ==
    Cardinality({i \in 1..Len(y_true) : y_true[i] = a /\ y_pred[i] = b})

(***************************************************************************)
(* sklearn.metrics.confusion_matrix(y_true, y_pred) with labels=None: the  *)
(* labels are the sorted values that occur in y_true or y_pred (False      *)
(* before True), and the matrix has one row (true label) and one column    *)
(* (predicted label) per such label.                                       *)
(***************************************************************************)
unique_labels(y_true, y_pred) ==
    LET occurring == {y_true[i] : i \in 1..Len(y_true)} \cup {y_pred[i] : i \in 1..Len(y_pred)}
    IN  (IF FALSE \in occurring THEN <<FALSE>> ELSE <<>>) \o
        (IF TRUE \in occurring THEN <<TRUE>> ELSE <<>>)

confusion_matrix(y_true, y_pred) ==
    LET labels == unique_labels(y_true, y_pred)
        n == Len(labels)
    IN  [i \in 1..n |-> [j \in 1..n |-> CountPairs(y_true, y_pred, labels[i], labels[j])]]

\* ndarray.ravel(): the rows one after another
ravel(C) ==
    LET n == Len(C)
    IN  [k \in 1..(n * n) |-> C[((k - 1) \div n) + 1][((k - 1) % n) + 1]]

(***************************************************************************)
(* Outcomes of a call: a returned value or a raised ValueError.            *)
(***************************************************************************)
Return(v) == [ok |-> TRUE, val |-> v]

ValueError == [ok |-> FALSE, val |-> 0]

(***************************************************************************)
(* def my_scorer(y_test, y_est, cost_fp=10.0, cost_fn=1.0):                *)
(*     tn, fp, fn, tp = confusion_matrix(y_test, y_est).ravel()            *)
(*     return cost_fp*fp + cost_fn*fn                                      *)
(* The unpacking into four names raises ValueError unless ravel() has      *)
(* exactly four entries.                                                   *)
(***************************************************************************)
my_scorer_swapped(yt, ye, cost_fp, cost_fn) ==
    LET r == ravel(confusion_matrix(yt, ye))
    IN  IF Len(r) # 4 THEN ValueError
        ELSE LET l_tn == r[1]
                 l_fn == r[2]
                 l_fp == r[3]
                 l_tp == r[4]
             IN  Return(cost_fp * l_fp + cost_fn * l_fn)

my_scorer(yt, ye, cost_fp, cost_fn) ==
    LET r == ravel(confusion_matrix(yt, ye))
    IN  IF Len(r) # 4 THEN ValueError
        ELSE LET l_tn == r[1]
                 l_fp == r[2]
                 l_fn == r[3]
                 l_tp == r[4]
             IN  Return(cost_fp * l_fp + cost_fn * l_fn)

\* notebook 00's my_metric has the same body
my_metric(yt, ye, cost_fp, cost_fn) ==
    LET r == ravel(confusion_matrix(yt, ye))
    IN  IF Len(r) # 4 THEN ValueError
        ELSE LET l_tn == r[1]
                 l_fp == r[2]
                 l_fn == r[3]
                 l_tp == r[4]
             IN  Return(cost_fp * l_fp + cost_fn * l_fn)

(***************************************************************************)
(* A call of my_scorer seen from the notebook: what it returns and what it *)
(* leaves behind.  tn, fp, fn, tp are assigned inside the function without *)
(* a global declaration, so they are locals of the call's frame; the       *)
(* kernel's globals g and the two argument vectors come back as passed.    *)
(***************************************************************************)
my_scorer_call_global(g, yt, ye, cost_fp, cost_fn) ==
    LET r == ravel(confusion_matrix(yt, ye))
    IN  [ret |-> my_scorer(yt, ye, cost_fp, cost_fn),
         g |-> IF Len(r) # 4 THEN g
               ELSE [g EXCEPT !.tn = r[1], !.fp = r[2], !.fn = r[3], !.tp = r[4]],
         y_test |-> yt,
         y_est |-> ye]

my_scorer_call(g, yt, ye, cost_fp, cost_fn) ==
    [ret |-> my_scorer(yt, ye, cost_fp, cost_fn),
     g |-> g,
     y_test |-> yt,
     y_est |-> ye]

\* the defaults of cost_fp and cost_fn
DefaultCostFp == 10
DefaultCostFn == 1

\* the cost weights a caller passes: the defaults, or its own
CostPairs == {<<DefaultCostFp, DefaultCostFn>>, <<2, 3>>}

\* the bank manager's costs of the credit cell
CreditCostFp == 10
CreditCostFn == 150

NoCall == [set |-> FALSE, y_test |-> <<>>, y_est |-> <<>>, cost_fp |-> 0, cost_fn |-> 0,
           ret |-> ValueError]

globals01 == [tn |-> tn, fp |-> fp, fn |-> fn, tp |-> tp, cost |-> cost]

(***************************************************************************)
(* The state after the credit data was loaded, split and a first forest    *)
(* predicted the test labels (notebook 01, the cell before the metrics).   *)
(***************************************************************************)
LossIdle ==
    /\ y_test = <<>> /\ preds = <<>>
    /\ tn = -1 /\ fp = -1 /\ fn = -1 /\ tp = -1 /\ cost = -1
    /\ raised = FALSE
    /\ last = "idle"
    /\ call = NoCall

LossStart ==
    /\ y_test \in LabelVectors
    /\ preds \in BoolSeqs(Len(y_test))
    /\ tn = -1 /\ fp = -1 /\ fn = -1 /\ tp = -1 /\ cost = -1
    /\ raised = FALSE
    /\ last = "split"
    /\ call = NoCall

(***************************************************************************)
(* clf = RandomForestClassifier(random_state=2).fit(X_train, y_train)      *)
(* preds = clf.predict(X_test)                                             *)
(* tn, fp, fn, tp = confusion_matrix(y_test, preds).ravel()                *)
(* cost = fp*10 + fn*150                                                   *)
(* The forest may predict any label vector.  When the unpacking raises,    *)
(* preds is already rebound and the later names are not.                   *)
(***************************************************************************)
credit_unpack_swapped(r) == [tn |-> r[1], fp |-> r[3], fn |-> r[2], tp |-> r[4]]

credit_unpack(r) == [tn |-> r[1], fp |-> r[2], fn |-> r[3], tp |-> r[4]]

CreditCostCell ==
    \E p \in BoolSeqs(Len(y_test)) :
        LET r == ravel(confusion_matrix(y_test, p))
        IN  /\ preds' = p
            /\ last' = "credit_cost"
            /\ IF Len(r) # 4
               THEN /\ raised' = TRUE
                    /\ UNCHANGED <<tn, fp, fn, tp, cost>>
               ELSE LET u == credit_unpack(r)
                    IN  /\ raised' = FALSE
                        /\ tn' = u.tn /\ fp' = u.fp /\ fn' = u.fn /\ tp' = u.tp
                        /\ cost' = u.fp * CreditCostFp + u.fn * CreditCostFn
            /\ UNCHANGED <<y_test, call>>
            /\ UNCHANGED notLoss

(***************************************************************************)
(* print(my_scorer(y_test, clf.predict(X_test))): a call of my_scorer on   *)
(* the kernel's y_test and a freshly predicted vector.                     *)
(***************************************************************************)
CallMyScorer ==
    \E ye \in BoolSeqs(Len(y_test)), c \in CostPairs :
        LET out == my_scorer_call(globals01, y_test, ye, c[1], c[2])
        IN  /\ call' = [set |-> TRUE, y_test |-> y_test, y_est |-> ye,
                        cost_fp |-> c[1], cost_fn |-> c[2], ret |-> out.ret]
            /\ y_test' = out.y_test
            /\ tn' = out.g.tn /\ fp' = out.g.fp /\ fn' = out.g.fn /\ tp' = out.g.tp
            /\ cost' = out.g.cost
            /\ raised' = ~out.ret.ok
            /\ last' = "my_scorer"
            /\ UNCHANGED preds
            /\ UNCHANGED notLoss

NextLoss == CreditCostCell \/ CallMyScorer

(***************************************************************************)
(* Notebook 00: GridSearchCV(pipe, param_grid=params, scoring=scorer) with *)
(* scorer = make_scorer(my_metric), and GridSearchCV(pipe, params) with    *)
(* the classifier's own score, which is its accuracy.                      *)
(***************************************************************************)
\* cross-validation folds of one fit
NFolds == 2

\* params = {'feature_selection__k': [10, 20], 'clf__n_estimators': [2, 5]}:
\* ParameterGrid sorts the keys and varies the last one fastest
param_k == <<10, 20>>

param_n_estimators == <<2, 5>>

\* the value lists paired position by position instead of crossed
candidate_params_zipped ==
    [c \in 1..Len(param_k) |->
        [clf__n_estimators |-> param_n_estimators[c],
         feature_selection__k |-> param_k[c]]]

candidate_params ==
    [c \in 1..(Len(param_n_estimators) * Len(param_k)) |->
        [clf__n_estimators |-> param_n_estimators[((c - 1) \div Len(param_k)) + 1],
         feature_selection__k |-> param_k[((c - 1) % Len(param_k)) + 1]]]

NCandidates == Len(candidate_params)

\* the labels of a test fold: the folds are stratified, so both classes occur
FoldLabels == <<FALSE, TRUE>>

\* make_scorer(score_func, greater_is_better=True): the scorer's sign
make_scorer_sign(greater_is_better) == IF greater_is_better THEN 1 ELSE -1

\* scorer = make_scorer(my_metric): greater_is_better is left at its default
scorer_sign == make_scorer_sign(TRUE)

\* scorer(estimator, X_fold, y_fold) = sign * my_metric(y_fold, estimator.predict(X_fold))
scorer(y_fold, y_pred) ==
    scorer_sign * my_metric(y_fold, y_pred, DefaultCostFp, DefaultCostFn).val

\* accuracy_score(y_true, y_pred): the fraction of positions that agree
accuracy_score(y_true, y_pred) ==
    <<Cardinality({i \in 1..Len(y_true) : y_pred[i] = y_true[i]}), Len(y_true)>>

\* the score of one fit on its test fold; every fold has Len(FoldLabels)
\* rows, so the accuracy is kept as its count of correct rows
fold_score(scoring, y_fold, y_pred) ==
    IF scoring = "my_metric"
    THEN scorer(y_fold, y_pred)
    ELSE accuracy_score(y_fold, y_pred)[1]

GridIdle ==
    /\ gs_scoring = "none"
    /\ gs_k = 0
    /\ gs_log = <<>>
    /\ gs_sum = [c \in 1..NCandidates |-> 0]
    /\ best_index = 0

GridStart ==
    /\ gs_scoring \in {"my_metric", "accuracy"}
    /\ gs_k = 0
    /\ gs_log = <<>>
    /\ gs_sum = [c \in 1..NCandidates |-> 0]
    /\ best_index = 0

\* the candidate and fold of the next fit: candidates in order, folds inside
NextCandidate == (gs_k \div NFolds) + 1

NextFold == (gs_k % NFolds) + 1

(***************************************************************************)
(* One fit-and-score of fit(): the pipeline with the candidate's           *)
(* parameters is fitted on the training folds and may predict any labels   *)
(* on the test fold; the scorer's value is added to the candidate's sum.   *)
(***************************************************************************)
FitAndScore ==
    /\ gs_k < NCandidates * NFolds
    /\ \E y_pred \in BoolSeqs(Len(FoldLabels)) :
          gs_sum' = [gs_sum EXCEPT ![NextCandidate] =
                                      @ + fold_score(gs_scoring, FoldLabels, y_pred)]
    /\ gs_log' = Append(gs_log, [params |-> candidate_params[NextCandidate],
                                 fold |-> NextFold])
    /\ gs_k' = gs_k + 1
    /\ UNCHANGED <<gs_scoring, best_index>>
    /\ UNCHANGED notGrid

\* mean_test_score of candidate a is greater than that of candidate b
\* (both are sums over the same NFolds folds, divided by NFolds)
MeanGreater(sums, a, b) == sums[a] * NFolds > sums[b] * NFolds

\* rank_test_score.argmin(): the first candidate no other candidate beats
rank_argmin(sums) ==
    CHOOSE c \in 1..NCandidates :
        /\ \A d \in 1..NCandidates : ~MeanGreater(sums, d, c)
        /\ \A d \in 1..(c - 1) : MeanGreater(sums, c, d)

(***************************************************************************)
(* The end of fit(): best_index_ and best_params_ are set.                 *)
(***************************************************************************)
SelectBest ==
    /\ gs_k = NCandidates * NFolds
    /\ best_index = 0
    /\ best_index' = rank_argmin(gs_sum)
    /\ UNCHANGED <<gs_scoring, gs_k, gs_log, gs_sum>>
    /\ UNCHANGED notGrid

best_params == candidate_params[best_index]

\* cv_results_: one row per candidate
cv_results ==
    [c \in 1..NCandidates |->
        [params |-> candidate_params[c], mean_test_score |-> <<gs_sum[c], NFolds>>]]

NextGrid == FitAndScore \/ SelectBest


(***************************************************************************)
(* Notebook 00: model deployment and the champion/challenger cell.         *)
(***************************************************************************)
\* most rows of the arrhythmia test split
MaxTest == 3

TestLabelVectors == UNION {BoolSeqs(n) : n \in 1..MaxTest}

\* a name that is not bound to a model yet
NoModel == [kind |-> "None", labels |-> <<>>]

\* Estimator().fit(X_train, y_train): a fitted model is the labels it gives
\* the rows of X_test; fitting may produce any such table
FittedModels(kind, n) == {[kind |-> kind, labels |-> t] : t \in BoolSeqs(n)}

\* model.predict(X_test)
predict(model) == model.labels

\* pickle.dump(obj, file): the class name, then one mark per table entry
pickle_dumps(model) ==
    <<model.kind>> \o [i \in 1..Len(model.labels) |-> IF model.labels[i] THEN "T" ELSE "F"]

\* a load that loses the last entry of the table
pickle_loads_truncated(bytes) ==
    [kind |-> bytes[1], labels |-> [i \in 1..(Len(bytes) - 2) |-> bytes[i + 1] = "T"]]

\* pickle.load(file): the object the bytes describe
pickle_loads(bytes) ==
    [kind |-> bytes[1], labels |-> [i \in 1..(Len(bytes) - 1) |-> bytes[i + 1] = "T"]]

\* f1_score(y_true, y_pred) = 2tp / (2tp + fp + fn) as <<numerator, denominator>>,
\* and 0 when there is no positive label and no positive prediction
f1_score(y_true, y_pred) ==
    LET n_tp == CountPairs(y_true, y_pred, TRUE, TRUE)
        n_fp == CountPairs(y_true, y_pred, FALSE, TRUE)
        n_fn == CountPairs(y_true, y_pred, TRUE, FALSE)
    IN  IF 2 * n_tp + n_fp + n_fn = 0 THEN <<0, 1>>
        ELSE <<2 * n_tp, 2 * n_tp + n_fp + n_fn>>

\* a > b for two fractions with positive denominators
FracGreater(a, b) == a[1] * b[2] > b[1] * a[2]

\* the deployment cell with its two with-blocks in the opposite order
deploy_cell_io_load_first == <<"load", "dump_fitted">>

\* the file operations of the deployment cell, in statement order:
\* pickle.dump(clf, file) and then pickle.load(file)
deploy_cell_io == <<"dump_fitted", "load">>

\* those of the champion/challenger cell: pickle.load(open(...)) and then
\* pickle.dump(champion, file)
champion_cell_io == <<"load", "dump_loaded">>

(***************************************************************************)
(* One file operation of a cell.  st.file is the file, st.fitted the model *)
(* the cell fitted, st.loaded the name the cell loads into.  A dump opens  *)
(* the file with 'wb', writes the whole object and closes the file at the  *)
(* end of its with-block; a load of an absent file raises and ends the     *)
(* cell.                                                                   *)
(***************************************************************************)
io_step(op, st) ==
    IF st.raised THEN st
    ELSE IF op = "load"
    THEN IF st.file = <<>>
         THEN [st EXCEPT !.raised = TRUE,
                         !.log = Append(@, [op |-> "read", cell |-> st.cell, bytes |-> <<>>])]
         ELSE [st EXCEPT !.loaded = pickle_loads(st.file),
                         !.log = Append(@, [op |-> "read", cell |-> st.cell, bytes |-> st.file])]
    ELSE LET obj == IF op = "dump_fitted" THEN st.fitted ELSE st.loaded
         IN  [st EXCEPT !.file = pickle_dumps(obj),
                        !.log = Append(@, [op |-> "write", cell |-> st.cell,
                                           bytes |-> pickle_dumps(obj)])]

\* the file operations of a cell one after the other
RECURSIVE run_io(_, _, _)
run_io(ops, i, st) ==
    IF i > Len(ops) THEN st ELSE run_io(ops, i + 1, io_step(ops[i], st))

DeployIdle ==
    /\ pkl_log = <<>>
    /\ dp_raised = FALSE
    /\ dp_cell = "idle"
    /\ y_test_00 = <<>>
    /\ model_pkl = <<>>
    /\ clf = NoModel /\ clf_from_file = NoModel
    /\ champion = NoModel /\ challenger = NoModel
    /\ preds_00 = <<>>
    /\ f1_printed = <<>>

\* the state after the arrhythmia data was split
DeployStart ==
    /\ pkl_log = <<>>
    /\ dp_raised = FALSE
    /\ dp_cell = "split"
    /\ y_test_00 \in TestLabelVectors
    /\ model_pkl = <<>>
    /\ clf = NoModel /\ clf_from_file = NoModel
    /\ champion = NoModel /\ challenger = NoModel
    /\ preds_00 = <<>>
    /\ f1_printed = <<>>

(***************************************************************************)
(* clf = RandomForestClassifier(random_state=42).fit(X_train, y_train)     *)
(* with open('model.pkl', 'wb') as file: pickle.dump(clf, file=file)       *)
(* with open('model.pkl', 'rb') as file: clf_from_file = pickle.load(file) *)
(* preds = clf_from_file.predict(X_test)                                   *)
(***************************************************************************)
DeployCell ==
    /\ dp_cell = "split"
    /\ \E fitted \in FittedModels("RandomForestClassifier", Len(y_test_00)) :
          LET st == run_io(deploy_cell_io, 1,
                           [cell |-> "deploy", file |-> model_pkl, fitted |-> fitted,
                            loaded |-> clf_from_file, log |-> pkl_log, raised |-> FALSE])
          IN  /\ clf' = fitted
              /\ model_pkl' = st.file
              /\ clf_from_file' = st.loaded
              /\ preds_00' = (IF st.raised THEN preds_00 ELSE predict(st.loaded))
              /\ pkl_log' = st.log
              /\ dp_raised' = st.raised
    /\ dp_cell' = "deployed"
    /\ UNCHANGED <<y_test_00, champion, challenger, f1_printed>>
    /\ UNCHANGED notDeploy

(***************************************************************************)
(* champion = pickle.load(open('model.pkl', 'rb'))                         *)
(* challenger = GaussianNB().fit(X_train, y_train)                         *)
(* print(f1_score(y_test, champion.predict(X_test)))                       *)
(* print(f1_score(y_test, challenger.predict(X_test)))                     *)
(* with open('model.pkl', 'wb') as file: pickle.dump(champion, file=file)  *)
(***************************************************************************)
ChampionChallengerCell ==
    /\ dp_cell = "deployed"
    /\ LET st == run_io(champion_cell_io, 1,
                        [cell |-> "champion", file |-> model_pkl, fitted |-> NoModel,
                         loaded |-> champion, log |-> pkl_log, raised |-> FALSE])
       IN  /\ champion' = st.loaded
           /\ model_pkl' = st.file
           /\ pkl_log' = st.log
           /\ dp_raised' = st.raised
           /\ IF st.raised
              THEN UNCHANGED <<challenger, f1_printed>>
              ELSE /\ challenger' \in FittedModels("GaussianNB", Len(y_test_00))
                   /\ f1_printed' = <<f1_score(y_test_00, predict(champion')),
                                      f1_score(y_test_00, predict(challenger'))>>
    /\ dp_cell' = "compared"
    /\ UNCHANGED <<y_test_00, clf, clf_from_file, preds_00>>
    /\ UNCHANGED notDeploy

NextDeploy == DeployCell \/ ChampionChallengerCell


(***************************************************************************)
(* Notebook 00: the window-size experiment.  The data file is not part of  *)
(* the sources, so the table size is a bound, and t_now = 400 and          *)
(* wrange = range(10, 100, 10) are scaled down with it.                    *)
(***************************************************************************)
\* rows of arrh, labelled 0 .. NRows - 1
NRows == 10

\* t_now
TNow == 8

\* range(WStart, WStop, WStep)
WStart == 2
WStop == 8
WStep == 2

arrh_index == 0..(NRows - 1)

\* train_test_split(X, y, test_size=0.2): ceil(0.2 * n) rows go to the test set
n_test(n) == (n + 4) \div 5

\* range(start, stop, step) for a positive step, as a sequence
range(start, stop, step) ==
    IF stop <= start THEN <<>>
    ELSE [i \in 1..((stop - start + step - 1) \div step) |-> start + (i - 1) * step]

wrange == range(WStart, WStop, WStep)

\* a slice that leaves its stop label out, as positional slices do
loc_slice_exclusive(index, lo, hi) == {r \in index : lo <= r /\ r < hi}

\* arrh.loc[lo:hi]: the rows whose label is between lo and hi, both included
loc_slice(index, lo, hi) == {r \in index : lo <= r /\ r <= hi}

\* np.argmax: the first position of the largest score
argmax(values) ==
    CHOOSE i \in 1..Len(values) :
        /\ \A j \in 1..Len(values) : ~FracGreater(values[j], values[i])
        /\ \A j \in 1..(i - 1) : FracGreater(values[i], values[j])

WindowIdle ==
    /\ test_rows = {}
    /\ y_test_w = <<>>
    /\ w_done = 0
    /\ sliding = {}
    /\ accuracies = <<>>
    /\ optimal_window = 0

\* arrh is read again and split at random: any n_test rows are the test set
WindowStart ==
    /\ test_rows \in {S \in SUBSET arrh_index : Cardinality(S) = n_test(NRows)}
    /\ y_test_w \in BoolSeqs(n_test(NRows))
    /\ w_done = 0
    /\ sliding = {}
    /\ accuracies = <<>>
    /\ optimal_window = 0

(***************************************************************************)
(* for w_size in wrange:                                                   *)
(*     sliding = arrh.loc[(t_now - w_size + 1):t_now]                      *)
(*     X, y = sliding.drop('class', axis=1), sliding['class']              *)
(*     preds = GaussianNB().fit(X, y).predict(X_test)                      *)
(*     accuracies.append(f1_score(y_test, preds))                          *)
(***************************************************************************)
WindowLoopBody ==
    /\ w_done < Len(wrange)
    /\ LET w_size == wrange[w_done + 1]
       IN  sliding' = loc_slice(arrh_index, TNow - w_size + 1, TNow)
    /\ \E w_preds \in BoolSeqs(Len(y_test_w)) :
          accuracies' = Append(accuracies, f1_score(y_test_w, w_preds))
    /\ w_done' = w_done + 1
    /\ UNCHANGED <<test_rows, y_test_w, optimal_window>>
    /\ UNCHANGED notWindow

\* optimal_window = wrange[np.argmax(accuracies)]
PickOptimalWindow ==
    /\ w_done = Len(wrange)
    /\ w_done > 0
    /\ optimal_window = 0
    /\ optimal_window' = wrange[argmax(accuracies)]
    /\ UNCHANGED <<test_rows, y_test_w, w_done, sliding, accuracies>>
    /\ UNCHANGED notWindow

NextWindow == WindowLoopBody \/ PickOptimalWindow


(***************************************************************************)
(* Notebook 01: data fusion.  Computers are numbered in the order in which *)
(* their names sort.                                                       *)
(***************************************************************************)
\* most records of the flows table
MaxFlows == 3

\* the values a flow record's fields take
FlowRecords ==
    [source_computer : {1, 2}, destination_port : {80, 443},
     packet_count : {1, 2}, duration : {0, 3}]

FlowTables == UNION {[1..n -> FlowRecords] : n \in 1..MaxFlows}

\* attack.destination_computer: computers that send flows, and others
AttackTables == {<<>>, <<2>>, <<3>>, <<3, 1>>, <<2, 3, 2>>}

RECURSIVE SeqSum(_)
SeqSum(col) == IF col = <<>> THEN 0 ELSE col[1] + SeqSum(Tail(col))

\* np.mean(column) as <<sum, count>>
np_mean(col) == <<SeqSum(col), Len(col)>>

\* df[name]: one column of a table
column(df, name) == [i \in 1..Len(df) |-> df[i][name]]

\* a featurize that counts the port column without set()
featurize_without_set(df) ==
    [unique_ports |-> Len(column(df, "destination_port")),
     average_packet |-> np_mean(column(df, "packet_count")),
     average_duration |-> np_mean(column(df, "duration"))]

(***************************************************************************)
(* def featurize(df):                                                      *)
(*     return {'unique_ports': len(set(df['destination_port'])),           *)
(*             'average_packet': np.mean(df['packet_count']),              *)
(*             'average_duration': np.mean(df['duration'])}                *)
(***************************************************************************)
featurize(df) ==
    [unique_ports |-> Cardinality({df[i].destination_port : i \in 1..Len(df)}),
     average_packet |-> np_mean(column(df, "packet_count")),
     average_duration |-> np_mean(column(df, "duration"))]

RECURSIVE sorted(_)
sorted(S) ==
    IF S = {} THEN <<>>
    ELSE LET least == CHOOSE a \in S : \A b \in S : a <= b
         IN  <<least>> \o sorted(S \ {least})

\* df.groupby(key): the group keys in sorted order
group_keys(df, key) == sorted({df[i][key] : i \in 1..Len(df)})

\* the rows of one group, in the table's order
group_rows(df, key, k) == SelectSeq(df, LAMBDA rec : rec[key] = k)

\* an 'in' that looks at the first entry of the array only
in_array_first(x, arr) == Len(arr) > 0 /\ arr[1] = x

\* x in arr, for a numpy array arr
in_array(x, arr) == \E j \in 1..Len(arr) : arr[j] = x

FlowsIdle ==
    /\ flows = <<>>
    /\ attack = <<>>
    /\ X = [index |-> <<>>, rows |-> <<>>]
    /\ y = <<>>
    /\ fx_done = FALSE

\* the two tables have been read
FlowsStart ==
    /\ flows \in FlowTables
    /\ attack \in AttackTables
    /\ X = [index |-> <<>>, rows |-> <<>>]
    /\ y = <<>>
    /\ fx_done = FALSE

(***************************************************************************)
(* bads = attack.destination_computer.values                               *)
(* out = flows.groupby('source_computer').apply(featurize)                 *)
(* X = pd.DataFrame(list(out), index=out.index)                            *)
(* y = [x in bads for x in X.index]                                        *)
(***************************************************************************)
FeatureCell ==
    /\ ~fx_done
    /\ LET bads == attack
           out_index == group_keys(flows, "source_computer")
           out == [i \in 1..Len(out_index) |->
                      featurize(group_rows(flows, "source_computer", out_index[i]))]
       IN  /\ X' = [index |-> out_index, rows |-> out]
           /\ y' = [i \in 1..Len(out_index) |-> in_array(out_index[i], bads)]
    /\ fx_done' = TRUE
    /\ UNCHANGED <<flows, attack>>
    /\ UNCHANGED notFlows

NextFlows == FeatureCell


(***************************************************************************)
(* Notebook 00: pipe = Pipeline([('feature_selection', SelectKBest(...)),  *)
(* ('clf', RandomForestClassifier(...))]), its fit and its predict.        *)
(***************************************************************************)
\* columns of the feature table
NCols == 3

\* fit and predict calls made on one pipeline
MaxCalls == 3

X_columns == 1..NCols

\* the steps in the opposite order
pipe_steps_reversed == <<"clf", "feature_selection">>

\* the list handed to Pipeline(...)
pipe_steps == <<"feature_selection", "clf">>

\* the supports SelectKBest(k=k) can end up with on data with these columns
KSubsets(cols, k) == {S \in SUBSET cols : Cardinality(S) = k}

(***************************************************************************)
(* Pipeline.fit and Pipeline.predict walk the steps in list order: every   *)
(* step but the last is fit_transform'ed (transform'ed when predicting)    *)
(* and hands its output to the next one; the last is fitted (or predicts). *)
(* The result is the list of what each step saw and gave on.               *)
(***************************************************************************)
RECURSIVE pipe_run(_, _, _, _, _)
pipe_run(steps, i, Xt, support, fitting) ==
    IF i > Len(steps)
    THEN <<>>
    ELSE LET op == IF fitting THEN "fit"
                   ELSE IF i = Len(steps) THEN "predict" ELSE "transform"
             out == IF steps[i] = "feature_selection" THEN Xt \cap support ELSE Xt
         IN  <<[op |-> op, step |-> steps[i], seen |-> Xt, kept |-> out]>>
                 \o pipe_run(steps, i + 1, out, support, fitting)

\* the columns the classifier is given in one run
clf_seen(run) == run[CHOOSE i \in 1..Len(run) : run[i].step = "clf"].seen

PipeIdle ==
    /\ sel_k = 0
    /\ pipe_fitted = FALSE
    /\ sel_support = {}
    /\ clf_features = {}
    /\ pipe_log = <<>>

\* the pipeline as constructed, with any k the table has columns for
PipeStart ==
    /\ sel_k \in 1..NCols
    /\ pipe_fitted = FALSE
    /\ sel_support = {}
    /\ clf_features = {}
    /\ pipe_log = <<>>

\* pipe.fit(X_train, y_train): the selector keeps the k best-scoring columns
PipeFit ==
    /\ Len(pipe_log) < MaxCalls * Len(pipe_steps)
    /\ \E support \in KSubsets(X_columns, sel_k) :
          LET run == pipe_run(pipe_steps, 1, X_columns, support, TRUE)
          IN  /\ sel_support' = support
              /\ clf_features' = clf_seen(run)
              /\ pipe_log' = pipe_log \o run
    /\ pipe_fitted' = TRUE
    /\ UNCHANGED sel_k
    /\ UNCHANGED notPipe

\* pipe.predict(X_test) on a fitted pipeline
PipePredict ==
    /\ Len(pipe_log) < MaxCalls * Len(pipe_steps)
    /\ pipe_fitted
    /\ pipe_log' = pipe_log \o pipe_run(pipe_steps, 1, X_columns, sel_support, FALSE)
    /\ UNCHANGED <<sel_k, pipe_fitted, sel_support, clf_features>>
    /\ UNCHANGED notPipe

NextPipe == PipeFit \/ PipePredict

(***************************************************************************)
(* Notebook 01: preds = [s[1] > 0.5 for s in clf.predict_proba(X_test)]    *)
(* against clf.predict(X_test).                                            *)
(***************************************************************************)
\* rows of X_test that are scored
MaxRows == 3

\* largest denominator of a class probability
MaxDen == 2

\* the probabilities a classifier can give a class: a/d with 0 <= a <= d
Probabilities == {p \in (0..MaxDen) \X (1..MaxDen) : p[1] <= p[2]}

\* one row of predict_proba for a positive-class probability p: the
\* columns follow classes_, and the two probabilities sum to one
proba_row(p) == <<<<p[2] - p[1], p[2]>>, p>>

ProbaTables ==
    UNION {[1..n -> {proba_row(p) : p \in Probabilities}] : n \in 1..MaxRows}

\* clf.classes_ of a classifier fitted on boolean labels
classes_ == <<FALSE, TRUE>>

\* the threshold 0.5
Half == <<1, 2>>

\* s[1] >= 0.5
label_from_score_ge(s) == ~FracGreater(Half, s[2])

\* s[1] > 0.5: s[1] is the second column, the score of class True
label_from_score(s) == FracGreater(s[2], Half)

\* predict of a forest or tree: classes_.take(np.argmax(proba, axis=1))
predict_row(s) == classes_[argmax(s)]

ThresholdIdle ==
    /\ clf_proba = <<>>
    /\ scores = <<>>
    /\ preds_thr = <<>>
    /\ preds_default = <<>>
    /\ all_equal = FALSE

\* a fitted clf and an X_test
ThresholdStart ==
    /\ clf_proba \in ProbaTables
    /\ scores = <<>>
    /\ preds_thr = <<>>
    /\ preds_default = <<>>
    /\ all_equal = FALSE

ThresholdCell ==
    /\ scores' = clf_proba
    /\ preds_thr' = [i \in 1..Len(clf_proba) |-> label_from_score(clf_proba[i])]
    /\ preds_default' = [i \in 1..Len(clf_proba) |-> predict_row(clf_proba[i])]
    /\ all_equal' = (\A i \in 1..Len(clf_proba) : preds_thr'[i] = preds_default'[i])
    /\ UNCHANGED clf_proba
    /\ UNCHANGED notThreshold

NextThreshold == ThresholdCell

(***************************************************************************)
(* Notebook 01: tp = sum((preds == True) & (y_test == True)), tn likewise, *)
(* print((tp + tn)/len(y_test)).                                           *)
(***************************************************************************)
\* v == x, element by element
eq_scalar(v, x) == [i \in 1..Len(v) |-> v[i] = x]

\* a | b, element by element
or_mask(a, b) == [i \in 1..Len(a) |-> a[i] \/ b[i]]

\* a & b, element by element
and_mask(a, b) == [i \in 1..Len(a) |-> a[i] /\ b[i]]

\* sum() of a boolean vector
sum_mask(m) == Cardinality({i \in 1..Len(m) : m[i]})

AccuracyIdle ==
    /\ y_test_acc = <<>>
    /\ preds_acc = <<>>
    /\ tp_acc = 0
    /\ tn_acc = 0
    /\ accuracy_printed = <<>>

\* the split has been made and the forest has predicted the test rows
AccuracyStart ==
    /\ y_test_acc \in TestLabelVectors
    /\ preds_acc \in BoolSeqs(Len(y_test_acc))
    /\ tp_acc = 0
    /\ tn_acc = 0
    /\ accuracy_printed = <<>>

ManualAccuracyCell ==
    /\ tp_acc' = sum_mask(and_mask(eq_scalar(preds_acc, TRUE), eq_scalar(y_test_acc, TRUE)))
    /\ tn_acc' = sum_mask(and_mask(eq_scalar(preds_acc, FALSE), eq_scalar(y_test_acc, FALSE)))
    /\ accuracy_printed' = <<tp_acc' + tn_acc', Len(y_test_acc)>>
    /\ UNCHANGED <<y_test_acc, preds_acc>>
    /\ UNCHANGED notAccuracy

NextAccuracy == ManualAccuracyCell

(***************************************************************************)
(* Notebook 00: arrh = arrh.loc[arrh['age'] < 50] before the final          *)
(* grid_search.fit(X, y).                                                  *)
(***************************************************************************)
\* most rows of arrh
MaxPatients == 4

\* the age the filter compares with
AgeLimit == 50

\* ages just below, at and just above the limit
AgeValues == {AgeLimit - 1, AgeLimit, AgeLimit + 1}

AgeColumns == UNION {[1..n -> AgeValues] : n \in 1..MaxPatients}

\* arrh['age'] < 50, row by row
age_mask(ages) == [i \in 1..Len(ages) |-> ages[i] < AgeLimit]

\* df.loc[mask]: the rows whose mask entry is True
loc_mask(mask) == {i \in 1..Len(mask) : mask[i]}

FilterIdle ==
    /\ arrh_age = <<>>
    /\ arrh_rows = {}
    /\ age_filtered = FALSE

\* arrh = pd.read_csv('data/arrh.csv')
FilterStart ==
    /\ arrh_age \in AgeColumns
    /\ arrh_rows = 1..Len(arrh_age)
    /\ age_filtered = FALSE

AgeFilterCell ==
    /\ ~age_filtered
    /\ arrh_rows' = loc_mask(age_mask(arrh_age))
    /\ age_filtered' = TRUE
    /\ UNCHANGED arrh_age
    /\ UNCHANGED notFilter

NextFilter == AgeFilterCell

(***************************************************************************)
(* Notebook 01: weights = [0.5]*100 + [1.0]*(len(y_train_noisy)-100) and   *)
(* weights = [0.5 if w > 80 else 1.0 for w in X_train.weight], each        *)
(* followed by a fit with sample_weight=weights.                           *)
(***************************************************************************)
\* how far the size of the training set may be from the number of noisy rows
MaxOff == 2

\* most rows of the arrhythmia training set
MaxTrain == 3

\* the number of noisy examples
NoisyCount == 100

\* the body weight above which a subject is down-weighted
WeightLimit == 80

\* the sample weights 0.5 and 1.0
HalfWeight == <<1, 2>>

FullWeight == <<1, 1>>

\* [x]*k: k copies of x, none when k is negative
list_repeat(x, k) == [i \in 1..(IF k > 0 THEN k ELSE 0) |-> x]

\* w >= 80
is_overweight_ge(w) == w >= WeightLimit

\* w > 80
is_overweight(w) == w > WeightLimit

\* body weights just below, at and just above the limit
BodyWeights == {WeightLimit - 1, WeightLimit, WeightLimit + 1}

WeightColumns == UNION {[1..n -> BodyWeights] : n \in 1..MaxTrain}

\* estimator.fit(X, y, sample_weight=w): the weights must be one per row
fit_weighted(n_rows, w) == IF Len(w) = n_rows THEN "fitted" ELSE "ValueError"

WeightsIdle ==
    /\ n_train_noisy = 0
    /\ X_train_weight = <<>>
    /\ weights = <<>>
    /\ weights_cell = "none"
    /\ refit = "none"

\* the two training sets as split
WeightsStart ==
    /\ n_train_noisy \in (NoisyCount - MaxOff)..(NoisyCount + MaxOff)
    /\ X_train_weight \in WeightColumns
    /\ weights = <<>>
    /\ weights_cell = "none"
    /\ refit = "none"

NoisyWeightsCell ==
    /\ weights' = list_repeat(HalfWeight, NoisyCount)
                      \o list_repeat(FullWeight, n_train_noisy - NoisyCount)
    /\ weights_cell' = "noisy"
    /\ refit' = fit_weighted(n_train_noisy, weights')
    /\ UNCHANGED <<n_train_noisy, X_train_weight>>
    /\ UNCHANGED notWeights

BodyWeightsCell ==
    /\ weights' = [i \in 1..Len(X_train_weight) |->
                      IF is_overweight(X_train_weight[i]) THEN HalfWeight ELSE FullWeight]
    /\ weights_cell' = "body"
    /\ refit' = fit_weighted(Len(X_train_weight), weights')
    /\ UNCHANGED <<n_train_noisy, X_train_weight>>
    /\ UNCHANGED notWeights

NextWeights == NoisyWeightsCell \/ BodyWeightsCell

(***************************************************************************)
(* Notebook 01: X_train_bad = X_train[y_train], avg_bad_ports =            *)
(* np.mean(X_train_bad['unique_ports']), pred_port =                       *)
(* X_test['unique_ports'] > avg_bad_ports.                                 *)
(***************************************************************************)
\* most rows of X_train and of X_test
MaxSources == 2

\* most unique ports of a source
MaxPorts == 3

PortColumns == UNION {[1..n -> 1..MaxPorts] : n \in 1..MaxSources}

\* an indexing that takes every row whatever the mask
bool_index_all(col, mask) == col

\* X[mask] for a boolean mask: the rows whose mask entry is True, in order
bool_index(col, mask) ==
    LET rows == sorted({i \in 1..Len(mask) : mask[i]})
    IN  [j \in 1..Len(rows) |-> col[rows[j]]]

\* col > m for a mean m, element by element; nothing is greater than nan
gt_mean(col, m) ==
    [i \in 1..Len(col) |-> IF m[2] = 0 THEN FALSE ELSE col[i] * m[2] > m[1]]

HeuristicIdle ==
    /\ X_train_ports = <<>>
    /\ y_train_ports = <<>>
    /\ X_test_ports = <<>>
    /\ avg_bad_ports = <<>>
    /\ pred_port = <<>>

\* X and y as split into train and test
HeuristicStart ==
    /\ X_train_ports \in PortColumns
    /\ y_train_ports \in BoolSeqs(Len(X_train_ports))
    /\ X_test_ports \in PortColumns
    /\ avg_bad_ports = <<>>
    /\ pred_port = <<>>

PortHeuristicCell ==
    /\ LET X_train_bad == bool_index(X_train_ports, y_train_ports)
       IN  avg_bad_ports' = np_mean(X_train_bad)
    /\ pred_port' = gt_mean(X_test_ports, avg_bad_ports')
    /\ UNCHANGED <<X_train_ports, y_train_ports, X_test_ports>>
    /\ UNCHANGED notHeuristic

NextHeuristic == PortHeuristicCell

(***************************************************************************)
(* Notebook 01: avg_bad_packet = np.mean(X_train[y_train]['average_packet']) *)
(* pred_packet = X_test['average_packet'] < avg_bad_packet,                *)
(* pred_port = X_test['unique_ports'] > avg_bad_ports,                     *)
(* pred_both = pred_packet * pred_port.                                    *)
(***************************************************************************)
\* most rows of X_train and of X_test in the combined heuristic
MaxCombined == 2

\* the values a source's features take
SourceRows == [unique_ports : {1, 2}, average_packet : {1, 2}]

SourceTables == UNION {[1..n -> SourceRows] : n \in 1..MaxCombined}

\* col < m for a mean m, element by element; nothing is less than nan
lt_mean(col, m) ==
    [i \in 1..Len(col) |-> IF m[2] = 0 THEN FALSE ELSE col[i] * m[2] < m[1]]

\* a + b of two boolean vectors: True where either is
add_bool(a, b) == [i \in 1..Len(a) |-> a[i] \/ b[i]]

\* a * b of two boolean vectors on the same index: True where both are
mul_bool(a, b) == [i \in 1..Len(a) |-> a[i] /\ b[i]]

CombinedIdle ==
    /\ X_train_cb = <<>>
    /\ y_train_cb = <<>>
    /\ X_test_cb = <<>>
    /\ avg_bad_ports_cb = <<>>
    /\ avg_bad_packet = <<>>
    /\ pred_packet = <<>>
    /\ pred_port_cb = <<>>
    /\ pred_both = <<>>

\* the split, and avg_bad_ports as the port heuristic cell computed it
CombinedStart ==
    /\ X_train_cb \in SourceTables
    /\ y_train_cb \in BoolSeqs(Len(X_train_cb))
    /\ X_test_cb \in SourceTables
    /\ avg_bad_ports_cb =
          np_mean(bool_index(column(X_train_cb, "unique_ports"), y_train_cb))
    /\ avg_bad_packet = <<>>
    /\ pred_packet = <<>>
    /\ pred_port_cb = <<>>
    /\ pred_both = <<>>

CombinedHeuristicCell ==
    /\ avg_bad_packet' =
          np_mean(bool_index(column(X_train_cb, "average_packet"), y_train_cb))
    /\ pred_packet' = lt_mean(column(X_test_cb, "average_packet"), avg_bad_packet')
    /\ pred_port_cb' = gt_mean(column(X_test_cb, "unique_ports"), avg_bad_ports_cb)
    /\ pred_both' = mul_bool(pred_packet', pred_port_cb')
    /\ UNCHANGED <<X_train_cb, y_train_cb, X_test_cb, avg_bad_ports_cb>>
    /\ UNCHANGED notCombined

NextCombined == CombinedHeuristicCell

(***************************************************************************)
(* Notebook 00: def more_than_average(X, multiplier=1.0).  An array is the *)
(* sequence of its rows; numpy's column 1 is the second entry of a row.    *)
(***************************************************************************)
\* most rows of the array
MaxArrRows == 2

\* the widths of the array: it has a column 1
ArrayWidths == {2, 3}

\* the values of its entries
ArrayValues == {0, 1, 2}

Arrays ==
    UNION {[1..n -> [1..w -> ArrayValues]] : n \in 1..MaxArrRows, w \in ArrayWidths}

\* multiplier=1.0 and params = {'ft__multiplier': [1, 2, 3]}
Multipliers == {1, 2, 3}

\* A[:, c] with c counted from 0
array_column(A, c) == [r \in 1..Len(A) |-> A[r][c + 1]]

\* a boolean stored into a numeric array
as_number(b) == IF b THEN 1 ELSE 0

\* col > multiplier * m for a mean m, element by element
gt_scaled_mean(col, multiplier, m) ==
    [r \in 1..Len(col) |-> col[r] * m[2] > multiplier * m[1]]

\* A with column c (counted from 0) replaced by the boolean vector b
set_column(A, c, b) ==
    [r \in 1..Len(A) |->
        [k \in 1..Len(A[r]) |-> IF k = c + 1 THEN as_number(b[r]) ELSE A[r][k]]]

\* the same body with Z = X instead of Z = X.copy(): what is returned is
\* the caller's array itself
more_than_average_in_place(X_, multiplier) ==
    LET Z == set_column(X_, 1, gt_scaled_mean(array_column(X_, 1), multiplier,
                                              np_mean(array_column(X_, 1))))
    IN  [X |-> Z, Z |-> Z]

\* Z = X.copy(); Z[:,1] = Z[:,1] > multiplier*np.mean(Z[:,1]); return Z.
\* The result is the caller's array after the call and the array returned.
more_than_average(X_, multiplier) ==
    LET Z == set_column(X_, 1, gt_scaled_mean(array_column(X_, 1), multiplier,
                                              np_mean(array_column(X_, 1))))
    IN  [X |-> X_, Z |-> Z]

TransformIdle ==
    /\ X_given = <<>>
    /\ X_arg = <<>>
    /\ multiplier_arg = 0
    /\ Z_out = <<>>

\* an array and a multiplier to call the function with
TransformStart ==
    /\ X_given \in Arrays
    /\ X_arg = X_given
    /\ multiplier_arg \in Multipliers
    /\ Z_out = <<>>

CallMoreThanAverage ==
    /\ LET out == more_than_average(X_arg, multiplier_arg)
       IN  /\ X_arg' = out.X
           /\ Z_out' = out.Z
    /\ UNCHANGED <<X_given, multiplier_arg>>
    /\ UNCHANGED notTransform

NextTransform == CallMoreThanAverage

(***************************************************************************)
(* Claims about the cost-weighted scorers (SpecLoss).                      *)
(***************************************************************************)
\* positions whose true label is False and predicted label is True
FalsePositives(yt, ye) == Cardinality({i \in 1..Len(yt) : ~yt[i] /\ ye[i]})

\* positions whose true label is True and predicted label is False
FalseNegatives(yt, ye) == Cardinality({i \in 1..Len(yt) : yt[i] /\ ~ye[i]})

BothLabelsOccur(yt, ye) ==
    /\ \E i \in 1..Len(yt) : yt[i] \/ ye[i]
    /\ \E i \in 1..Len(yt) : ~yt[i] \/ ~ye[i]

\* C1: when both label values occur in the two vectors, my_scorer (and the
\* identical my_metric) returns cost_fp * FP + cost_fn * FN, FP counting true
\* False predicted True and FN counting true True predicted False.
C1_CostIsWeightedErrors ==
    (call.set /\ BothLabelsOccur(call.y_test, call.y_est)) =>
        LET expected == Return(call.cost_fp * FalsePositives(call.y_test, call.y_est)
                               + call.cost_fn * FalseNegatives(call.y_test, call.y_est))
        IN  /\ call.ret = expected
            /\ my_metric(call.y_test, call.y_est, call.cost_fp, call.cost_fn) = expected

\* a call with one false positive and one false negative under the caller's own costs
C1_Witness ==
    /\ call.set
    /\ FalsePositives(call.y_test, call.y_est) = 1
    /\ FalseNegatives(call.y_test, call.y_est) = 1
    /\ call.cost_fp = 2
    /\ call.ret = Return(5)

\* C2: my_scorer returns a number for every pair of equal-length label
\* vectors, and returns 0 when all true and predicted labels are one value.
C2_ScorerNeverRaises ==
    call.set =>
        /\ call.ret.ok
        /\ (~BothLabelsOccur(call.y_test, call.y_est) => call.ret.val = 0)

\* C6: a my_scorer call changes nothing of the kernel (y_test, preds, the
\* globals tn, fp, fn, tp, cost), and a call with the arguments of the call
\* before it has the same outcome, whatever ran in between.
C6_ScorerKeepsNoState ==
    [][(last' = "my_scorer") =>
          /\ UNCHANGED <<y_test, preds, tn, fp, fn, tp, cost>>
          /\ (  (/\ call.set
                 /\ call'.y_test = call.y_test /\ call'.y_est = call.y_est
                 /\ call'.cost_fp = call.cost_fp /\ call'.cost_fn = call.cost_fn)
             => call'.ret = call.ret)]_vars

\* a scorer call that returned after the credit cell had bound its globals
C6_Witness ==
    /\ last = "my_scorer"
    /\ call.ret.ok
    /\ call.ret.val > 0
    /\ tn >= 0
    /\ cost >= 0

\* C8: the credit cost is 10 per good customer labelled bad (true False,
\* predicted True) plus 150 per bad customer labelled good (true True,
\* predicted False), and tn, fp, fn, tp are those four counts in that order.
C8_CreditCost ==
    (last = "credit_cost" /\ ~raised) =>
        /\ tn = CountPairs(y_test, preds, FALSE, FALSE)
        /\ fp = CountPairs(y_test, preds, FALSE, TRUE)
        /\ fn = CountPairs(y_test, preds, TRUE, FALSE)
        /\ tp = CountPairs(y_test, preds, TRUE, TRUE)
        /\ cost = 10 * FalsePositives(y_test, preds) + 150 * FalseNegatives(y_test, preds)

\* the credit cell ran on one good customer labelled bad and one bad labelled good
C8_Witness ==
    /\ last = "credit_cost"
    /\ ~raised
    /\ y_test = <<FALSE, TRUE>>
    /\ preds = <<TRUE, FALSE>>
    /\ cost = 160

(***************************************************************************)
(* Claims about the grid search (SpecGrid).                                *)
(***************************************************************************)
\* the summed cross-validated cost cost_fp*FP + cost_fn*FN of candidate c:
\* the scorer's sum with the scorer's sign taken off
CostSum(c) == scorer_sign * gs_sum[c]

\* C3: the grid search scored by make_scorer(my_metric) reports as
\* best_params_ the combination with the lowest mean cross-validated cost.
C3_BestHasLowestCost ==
    (gs_scoring = "my_metric" /\ best_index # 0) =>
        \A c \in 1..NCandidates : CostSum(best_index) * NFolds <= CostSum(c) * NFolds

\* the Cartesian product of {'feature_selection__k': [10, 20],
\* 'clf__n_estimators': [2, 5]}
ParamProduct ==
    {[clf__n_estimators |-> n, feature_selection__k |-> k] : n \in {2, 5}, k \in {10, 20}}

\* C11: the grid search fits every combination of the Cartesian product of
\* the parameter lists exactly once per fold and nothing else (4 candidates
\* for the grid above, so cv_results_ has 4 rows), and best_params_ is one
\* of those combinations, with a mean test score no other combination beats.
C11_GridIsExhaustive ==
    /\ \A i \in 1..Len(gs_log) :
          gs_log[i].params \in ParamProduct /\ gs_log[i].fold \in 1..NFolds
    /\ \A i, j \in 1..Len(gs_log) : (i # j) => (gs_log[i] # gs_log[j])
    /\ (best_index # 0) =>
          /\ {gs_log[i] : i \in 1..Len(gs_log)} =
                 {[params |-> p, fold |-> f] : p \in ParamProduct, f \in 1..NFolds}
          /\ Cardinality(ParamProduct) = 4
          /\ Len(cv_results) = 4
          /\ {cv_results[c].params : c \in 1..Len(cv_results)} = ParamProduct
          /\ best_params \in ParamProduct
          /\ \A c \in 1..NCandidates : ~MeanGreater(gs_sum, c, best_index)

\* a finished search scored by accuracy whose best candidate beats another
C11_Witness ==
    /\ gs_scoring = "accuracy"
    /\ best_index # 0
    /\ Len(gs_log) = 4 * NFolds
    /\ \E c \in 1..NCandidates : MeanGreater(gs_sum, best_index, c)


(***************************************************************************)
(* Claims about deployment and the champion/challenger test (SpecDeploy).  *)
(***************************************************************************)
\* C4: after the champion/challenger cell model.pkl holds whichever of the
\* champion and the challenger has the higher F1 score on the test data.
C4_FileHoldsBetterModel ==
    (dp_cell = "compared") =>
        LET kept == pickle_loads(model_pkl)
            f1_kept == f1_score(y_test_00, predict(kept))
        IN  /\ kept \in {champion, challenger}
            /\ ~FracGreater(f1_score(y_test_00, predict(champion)), f1_kept)
            /\ ~FracGreater(f1_score(y_test_00, predict(challenger)), f1_kept)

WritesBefore(i) == {j \in 1..(i - 1) : pkl_log[j].op = "write"}

\* the bytes are a whole pickled fitted model for this test set
IsFittedModelFile(bytes) ==
    /\ bytes # <<>>
    /\ pickle_loads(bytes).kind \in {"RandomForestClassifier", "GaussianNB"}
    /\ Len(pickle_loads(bytes).labels) = Len(y_test_00)
    /\ pickle_dumps(pickle_loads(bytes)) = bytes

\* C23: with the cells run top to bottom, every read of model.pkl comes
\* after a completed write of it: the champion/challenger cell's load
\* comes after the deployment cell's dump, and when the champion/challenger
\* cell has finished model.pkl again holds a complete, loadable model.
C23_ReadAfterWrite ==
    /\ \A i \in 1..Len(pkl_log) :
          (pkl_log[i].op = "read") =>
              /\ WritesBefore(i) # {}
              /\ LET w == CHOOSE j \in WritesBefore(i) : \A h \in WritesBefore(i) : h <= j
                 IN  pkl_log[i].bytes = pkl_log[w].bytes
              /\ IsFittedModelFile(pkl_log[i].bytes)
              /\ (pkl_log[i].cell = "champion") =>
                    \E j \in WritesBefore(i) : pkl_log[j].cell = "deploy"
    /\ ~dp_raised
    /\ (dp_cell = "compared") =>
          /\ IsFittedModelFile(model_pkl)
          /\ pkl_log[Len(pkl_log)].op = "write"
          /\ pkl_log[Len(pkl_log)].bytes = model_pkl

\* both cells have run: two writes and two reads of model.pkl, the
\* champion read in between the writes
C23_Witness ==
    /\ dp_cell = "compared"
    /\ Len(pkl_log) = 4
    /\ pkl_log[3].op = "read" /\ pkl_log[3].cell = "champion"
    /\ pkl_log[4].op = "write" /\ pkl_log[4].cell = "champion"
    /\ champion = clf


(***************************************************************************)
(* Claims about the window-size experiment (SpecWindow).                   *)
(***************************************************************************)
\* C7: for every window size tried, no row of arrh used to fit that
\* window's classifier is one of the test rows its F1 score is measured on.
C7_WindowDisjointFromTest ==
    (w_done > 0) => (sliding \cap test_rows = {})

\* the window sizes a classifier has been fitted and scored for so far
TriedSizes == {wrange[i] : i \in 1..w_done}

\* C15: the experiment tries window sizes ranging from the start to the
\* stop handed to range(): once optimal_window is set, the sizes a
\* classifier was fitted and scored for include both ends, and
\* optimal_window is one of the sizes tried.
C15_SizesIncludeBothEnds ==
    (optimal_window # 0) =>
        /\ WStart \in TriedSizes
        /\ WStop \in TriedSizes
        /\ optimal_window \in TriedSizes

\* C17: for every window size w_size tried, the sliding window has exactly
\* w_size rows, those with index t_now - w_size + 1 through t_now
\* inclusive, so every window ends at row t_now and a larger window holds
\* every row of a smaller one.
C17_WindowRows ==
    /\ [](  (w_done > 0) =>
              /\ Cardinality(sliding) = wrange[w_done]
              /\ sliding = (TNow - wrange[w_done] + 1)..TNow
              /\ TNow \in sliding
              /\ \A r \in sliding : r <= TNow)
    /\ [][ (w_done > 0 /\ w_done' = w_done + 1) =>
              /\ wrange[w_done'] > wrange[w_done]
              /\ sliding \subseteq sliding' ]_vars

\* the second window has been cut, wider than the first
C17_Witness ==
    /\ w_done >= 2
    /\ Cardinality(sliding) = wrange[2]
    /\ wrange[2] > wrange[1]


(***************************************************************************)
(* Claims about data fusion (SpecFlows).                                   *)
(***************************************************************************)
\* the positions of the flow records sent by source s
RecordsOf(s) == {j \in 1..Len(flows) : flows[j].source_computer = s}

RECURSIVE SumOver(_, _)
SumOver(S, name) ==
    IF S = {} THEN 0
    ELSE LET j == CHOOSE k \in S : TRUE
         IN  flows[j][name] + SumOver(S \ {j}, name)

\* the fraction m is the mean of field name over the records S
IsMeanOver(m, S, name) == m[2] > 0 /\ m[1] * Cardinality(S) = m[2] * SumOver(S, name)

\* C9: X has exactly one row per distinct source_computer of flows, every
\* row has the same three fields, unique_ports is the number of distinct
\* destination ports of that source's records (between 1 and the number of
\* its records), and the two averages are the means over those records.
C9_FeatureTable ==
    fx_done =>
        LET sources == {flows[j].source_computer : j \in 1..Len(flows)}
        IN  /\ Len(X.index) = Cardinality(sources)
            /\ Len(X.rows) = Len(X.index)
            /\ {X.index[i] : i \in 1..Len(X.index)} = sources
            /\ \A i \in 1..Len(X.index) :
                  LET row == X.rows[i]
                      recs == RecordsOf(X.index[i])
                  IN  /\ DOMAIN row = {"unique_ports", "average_packet", "average_duration"}
                      /\ row.unique_ports
                            = Cardinality({flows[j].destination_port : j \in recs})
                      /\ 1 <= row.unique_ports
                      /\ row.unique_ports <= Cardinality(recs)
                      /\ IsMeanOver(row.average_packet, recs, "packet_count")
                      /\ IsMeanOver(row.average_duration, recs, "duration")

\* two sources, one of them with two records to the same port
C9_Witness ==
    /\ fx_done
    /\ Len(flows) = 3
    /\ X.index = <<1, 2>>
    /\ X.rows[1].unique_ports = 1
    /\ X.rows[1].average_packet = <<3, 2>>
    /\ X.rows[2].average_duration = <<3, 1>>

\* C10: y has one boolean per row of X, in X's order, and y[i] is True
\* exactly when X.index[i] is a destination_computer of the attack table.
C10_Labels ==
    fx_done =>
        /\ Len(y) = Len(X.rows)
        /\ \A i \in 1..Len(y) :
              y[i] = (X.index[i] \in {attack[j] : j \in 1..Len(attack)})

\* two sources, the first of them attacked and listed second in the attack table
C10_Witness ==
    /\ fx_done
    /\ X.index = <<1, 2>>
    /\ attack = <<3, 1>>
    /\ y = <<TRUE, FALSE>>


(***************************************************************************)
(* Claims about the pipeline (SpecPipe).                                   *)
(***************************************************************************)
\* the columns kept by the selector's latest fit before event i
LastFitKept(i) ==
    LET fits == {j \in 1..(i - 1) : pipe_log[j].step = "feature_selection"
                                     /\ pipe_log[j].op = "fit"}
    IN  pipe_log[CHOOSE j \in fits : \A h \in fits : h <= j].kept

\* C12: the pipeline's steps run in list order. On fit the selector is
\* fitted before the classifier and the classifier is fitted only on the k
\* columns the selector kept; on predict the input goes through the same
\* fitted selector first; the classifier never sees an unselected column.
C12_SelectorBeforeClassifier ==
    /\ \A i \in 1..Len(pipe_log) :
          (pipe_log[i].step = "clf") =>
              /\ i > 1
              /\ pipe_log[i - 1].step = "feature_selection"
              /\ pipe_log[i - 1].op = (IF pipe_log[i].op = "fit" THEN "fit" ELSE "transform")
              /\ pipe_log[i - 1].seen = X_columns
              /\ pipe_log[i].seen = pipe_log[i - 1].kept
              /\ pipe_log[i].seen = LastFitKept(i)
              /\ Cardinality(pipe_log[i].seen) = sel_k
    /\ \A i \in 1..Len(pipe_log) :
          (pipe_log[i].step = "feature_selection") =>
              /\ i < Len(pipe_log)
              /\ pipe_log[i + 1].step = "clf"
    /\ pipe_fitted => (clf_features = sel_support /\ Cardinality(clf_features) = sel_k)

\* a pipeline fitted, fitted again with another support that leaves a
\* column out, and then used to predict
C12_Witness ==
    /\ Len(pipe_log) = 3 * Len(pipe_steps)
    /\ pipe_log[1].op = "fit"
    /\ pipe_log[3].op = "fit"
    /\ pipe_log[5].op = "transform"
    /\ pipe_log[6].op = "predict"
    /\ pipe_log[1].kept # pipe_log[3].kept
    /\ sel_support # X_columns

(***************************************************************************)
(* Claims about the classification threshold (SpecThreshold).              *)
(***************************************************************************)
\* the positive-class score of row i is exactly 0.5
ScoreIsHalf(i) == scores[i][2][1] * 2 = scores[i][2][2]

\* C13: labelling a row positive exactly when its positive-class score is
\* strictly greater than 0.5 gives the label clf.predict gives it, for
\* every row, rows whose score is exactly 0.5 included.
C13_ThresholdEqualsPredict ==
    (scores # <<>>) =>
        /\ Len(preds_thr) = Len(scores) /\ Len(preds_default) = Len(scores)
        /\ \A i \in 1..Len(scores) :
              /\ preds_thr[i] = FracGreater(scores[i][2], <<1, 2>>)
              /\ preds_thr[i] = preds_default[i]
        /\ all_equal

\* the cell has run on rows scored exactly 0.5, above it and below it
C13_Witness ==
    /\ scores # <<>>
    /\ \E i \in 1..Len(scores) : ScoreIsHalf(i) /\ ~preds_default[i]
    /\ \E i \in 1..Len(scores) : preds_default[i]
    /\ \E i \in 1..Len(scores) : ~ScoreIsHalf(i) /\ ~preds_default[i]

(***************************************************************************)
(* Claims about the accuracy computed by hand (SpecAccuracy).              *)
(***************************************************************************)
\* C14: (tp + tn) / len(y_test), with tp the rows predicted True and truly
\* True and tn the rows predicted False and truly False, equals the
\* proportion of rows whose predicted label equals the true one, the value
\* of accuracy_score, for every pair of boolean label vectors.
C14_ManualAccuracy ==
    (accuracy_printed # <<>>) =>
        /\ tp_acc = Cardinality({i \in 1..Len(y_test_acc) : preds_acc[i] /\ y_test_acc[i]})
        /\ tn_acc = Cardinality({i \in 1..Len(y_test_acc) : ~preds_acc[i] /\ ~y_test_acc[i]})
        /\ accuracy_printed[2] = Len(y_test_acc)
        /\ accuracy_printed[1] * accuracy_score(y_test_acc, preds_acc)[2] =
              accuracy_score(y_test_acc, preds_acc)[1] * accuracy_printed[2]

\* an accuracy printed for predictions with true positives, true negatives
\* and both kinds of error
C14_Witness ==
    /\ accuracy_printed # <<>>
    /\ tp_acc > 0 /\ tn_acc > 0
    /\ tp_acc + tn_acc < Len(y_test_acc)
    /\ \E i \in 1..Len(y_test_acc) : preds_acc[i] /\ ~y_test_acc[i]

(***************************************************************************)
(* Claims about the dataset of the final grid search (SpecFilter).         *)
(***************************************************************************)
\* C16: the dataset the final grid search is fitted on disregards all
\* examples above 50 years old and nothing else: a row of arrh is kept if
\* and only if its age is not greater than 50.
C16_KeepsUpToFifty ==
    age_filtered =>
        \A i \in 1..Len(arrh_age) : (i \in arrh_rows) <=> (arrh_age[i] <= 50)

(***************************************************************************)
(* Claims about the sample weights (SpecWeights).                          *)
(***************************************************************************)
\* C18: the noisy-label weights give half weight to the first 100 training
\* examples and full weight to all later ones, one weight per training
\* example: for every training-set size n, len(weights) = n, weights[i] is
\* 0.5 for i < min(100, n) and 1.0 for i >= 100 (i counted from 0).
C18_NoisyWeights ==
    (weights_cell = "noisy") =>
        /\ Len(weights) = n_train_noisy
        /\ \A i \in 0..(Len(weights) - 1) :
              /\ (i < 100 /\ i < n_train_noisy) => (weights[i + 1] = <<1, 2>>)
              /\ (i >= 100) => (weights[i + 1] = <<1, 1>>)

\* C19: the body-weight sample weights have one entry per row of X_train in
\* row order, 0.5 exactly when the row's weight is strictly greater than 80
\* and 1.0 otherwise (a subject weighing exactly 80 keeps weight 1.0).
C19_BodyWeights ==
    (weights_cell = "body") =>
        /\ Len(weights) = Len(X_train_weight)
        /\ \A i \in 1..Len(weights) :
              /\ (weights[i] = <<1, 2>>) <=> (X_train_weight[i] > 80)
              /\ (weights[i] = <<1, 1>>) <=> (X_train_weight[i] <= 80)
        /\ refit = "fitted"

\* weights computed for subjects weighing less than, exactly and more than 80
C19_Witness ==
    /\ weights_cell = "body"
    /\ \E i \in 1..Len(weights) : X_train_weight[i] = 80 /\ weights[i] = <<1, 1>>
    /\ \E i \in 1..Len(weights) : X_train_weight[i] > 80
    /\ \E i \in 1..Len(weights) : X_train_weight[i] < 80

(***************************************************************************)
(* Claims about the port heuristic (SpecHeuristic).                        *)
(***************************************************************************)
\* the training rows labelled True
BadRows == {i \in 1..Len(y_train_ports) : y_train_ports[i]}

\* the sum of unique_ports over the training rows S
RECURSIVE PortSum(_)
PortSum(S) ==
    IF S = {} THEN 0
    ELSE LET i == CHOOSE k \in S : TRUE
         IN  X_train_ports[i] + PortSum(S \ {i})

\* C20: the port heuristic labels a test source positive exactly when its
\* unique_ports is strictly greater than avg_bad_ports, and avg_bad_ports
\* is the mean of unique_ports over the training rows labelled True only:
\* no test row and no training row labelled False influences it.
C20_PortHeuristic ==
    (avg_bad_ports # <<>>) =>
        /\ avg_bad_ports[2] = Cardinality(BadRows)
        /\ avg_bad_ports[1] = PortSum(BadRows)
        /\ Len(pred_port) = Len(X_test_ports)
        /\ \A j \in 1..Len(X_test_ports) :
              pred_port[j] <=>
                  /\ BadRows # {}
                  /\ X_test_ports[j] * Cardinality(BadRows) > PortSum(BadRows)

\* the heuristic applied with a training row labelled False whose port
\* count would move the mean, a test source above the threshold and one
\* exactly at it
C20_Witness ==
    /\ avg_bad_ports # <<>>
    /\ BadRows # {}
    /\ \E i \in 1..Len(y_train_ports) :
          ~y_train_ports[i] /\ X_train_ports[i] * avg_bad_ports[2] # avg_bad_ports[1]
    /\ \E j \in 1..Len(pred_port) : pred_port[j]
    /\ \E j \in 1..Len(pred_port) :
          ~pred_port[j] /\ X_test_ports[j] * avg_bad_ports[2] = avg_bad_ports[1]

(***************************************************************************)
(* Claims about the combined heuristic (SpecCombined).                     *)
(***************************************************************************)
\* the training rows labelled True
BadRowsCb == {i \in 1..Len(y_train_cb) : y_train_cb[i]}

\* the sum of one feature over the training rows S
RECURSIVE FeatureSum(_, _)
FeatureSum(S, name) ==
    IF S = {} THEN 0
    ELSE LET i == CHOOSE k \in S : TRUE
         IN  X_train_cb[i][name] + FeatureSum(S \ {i}, name)

\* test source j has more unique ports than the bad training sources' mean
MorePortsThanBad(j) ==
    /\ BadRowsCb # {}
    /\ X_test_cb[j].unique_ports * Cardinality(BadRowsCb)
          > FeatureSum(BadRowsCb, "unique_ports")

\* test source j has smaller packets than the bad training sources' mean
SmallerPacketsThanBad(j) ==
    /\ BadRowsCb # {}
    /\ X_test_cb[j].average_packet * Cardinality(BadRowsCb)
          < FeatureSum(BadRowsCb, "average_packet")

\* C21: pred_both is True for a test source exactly when both pred_port
\* (unique_ports > avg_bad_ports) and pred_packet (average_packet <
\* avg_bad_packet) are True for it; hence the sources the combined rule
\* labels positive are a subset of those the port rule labels positive.
C21_BothIsConjunction ==
    (avg_bad_packet # <<>>) =>
        /\ Len(pred_both) = Len(X_test_cb)
        /\ \A j \in 1..Len(X_test_cb) :
              /\ pred_port_cb[j] <=> MorePortsThanBad(j)
              /\ pred_packet[j] <=> SmallerPacketsThanBad(j)
              /\ pred_both[j] <=> (pred_port_cb[j] /\ pred_packet[j])
        /\ {j \in 1..Len(pred_both) : pred_both[j]}
              \subseteq {j \in 1..Len(pred_port_cb) : pred_port_cb[j]}

\* the cell has run on a test set with a source both rules flag and a
\* source only the port rule flags
C21_Witness ==
    /\ avg_bad_packet # <<>>
    /\ \E j \in 1..Len(pred_both) : pred_both[j]
    /\ \E j \in 1..Len(pred_both) : pred_port_cb[j] /\ ~pred_packet[j] /\ ~pred_both[j]

(***************************************************************************)
(* Claims about more_than_average (SpecTransform).                         *)
(***************************************************************************)
\* the sum of column 1 of the array as given
RECURSIVE GivenSum(_)
GivenSum(R) ==
    IF R = {} THEN 0
    ELSE LET r == CHOOSE k \in R : TRUE
         IN  X_given[r][2] + GivenSum(R \ {r})

\* row r of the given array is above multiplier times the mean of column 1
AboveScaledMean(r) ==
    X_given[r][2] * Len(X_given) > multiplier_arg * GivenSum(1..Len(X_given))

\* C22: more_than_average(X, multiplier) returns an array of the shape of X
\* whose column 1 is the indicator (1 if the original value is strictly
\* greater than multiplier * mean of the original column 1, else 0) and
\* whose other columns equal those of X; X itself is left unchanged.
C22_MoreThanAverage ==
    (Z_out # <<>>) =>
        /\ Len(Z_out) = Len(X_given)
        /\ \A r \in 1..Len(X_given) :
              /\ Len(Z_out[r]) = Len(X_given[r])
              /\ Z_out[r][2] = (IF AboveScaledMean(r) THEN 1 ELSE 0)
              /\ \A k \in 1..Len(X_given[r]) : (k # 2) => (Z_out[r][k] = X_given[r][k])
        /\ X_arg = X_given

\* a call on a three-column array that flags one row, not another, and
\* returns something other than its input
C22_Witness ==
    /\ Z_out # <<>>
    /\ Len(X_given[1]) = 3
    /\ \E r \in 1..Len(Z_out) : Z_out[r][2] = 1 /\ X_given[r][2] = 2
    /\ \E r \in 1..Len(Z_out) : Z_out[r][2] = 0
    /\ Z_out # X_given

(***************************************************************************)
(* The specifications: one per group of cells, the others idle.            *)
(***************************************************************************)
InitLoss ==
    /\ LossStart
    /\ GridIdle
    /\ DeployIdle
    /\ WindowIdle
    /\ FlowsIdle
    /\ PipeIdle
    /\ ThresholdIdle
    /\ AccuracyIdle
    /\ FilterIdle
    /\ WeightsIdle
    /\ HeuristicIdle
    /\ CombinedIdle
    /\ TransformIdle

SpecLoss == InitLoss /\ [][NextLoss]_vars

InitGrid ==
    /\ GridStart
    /\ LossIdle
    /\ DeployIdle
    /\ WindowIdle
    /\ FlowsIdle
    /\ PipeIdle
    /\ ThresholdIdle
    /\ AccuracyIdle
    /\ FilterIdle
    /\ WeightsIdle
    /\ HeuristicIdle
    /\ CombinedIdle
    /\ TransformIdle

SpecGrid == InitGrid /\ [][NextGrid]_vars

InitDeploy ==
    /\ DeployStart
    /\ LossIdle
    /\ GridIdle
    /\ WindowIdle
    /\ FlowsIdle
    /\ PipeIdle
    /\ ThresholdIdle
    /\ AccuracyIdle
    /\ FilterIdle
    /\ WeightsIdle
    /\ HeuristicIdle
    /\ CombinedIdle
    /\ TransformIdle

SpecDeploy == InitDeploy /\ [][NextDeploy]_vars

InitWindow ==
    /\ WindowStart
    /\ LossIdle
    /\ GridIdle
    /\ DeployIdle
    /\ FlowsIdle
    /\ PipeIdle
    /\ ThresholdIdle
    /\ AccuracyIdle
    /\ FilterIdle
    /\ WeightsIdle
    /\ HeuristicIdle
    /\ CombinedIdle
    /\ TransformIdle

SpecWindow == InitWindow /\ [][NextWindow]_vars

InitFlows ==
    /\ FlowsStart
    /\ LossIdle
    /\ GridIdle
    /\ DeployIdle
    /\ WindowIdle
    /\ PipeIdle
    /\ ThresholdIdle
    /\ AccuracyIdle
    /\ FilterIdle
    /\ WeightsIdle
    /\ HeuristicIdle
    /\ CombinedIdle
    /\ TransformIdle

SpecFlows == InitFlows /\ [][NextFlows]_vars

InitPipe ==
    /\ PipeStart
    /\ LossIdle
    /\ GridIdle
    /\ DeployIdle
    /\ WindowIdle
    /\ FlowsIdle
    /\ ThresholdIdle
    /\ AccuracyIdle
    /\ FilterIdle
    /\ WeightsIdle
    /\ HeuristicIdle
    /\ CombinedIdle
    /\ TransformIdle

SpecPipe == InitPipe /\ [][NextPipe]_vars

InitThreshold ==
    /\ ThresholdStart
    /\ LossIdle
    /\ GridIdle
    /\ DeployIdle
    /\ WindowIdle
    /\ FlowsIdle
    /\ PipeIdle
    /\ AccuracyIdle
    /\ FilterIdle
    /\ WeightsIdle
    /\ HeuristicIdle
    /\ CombinedIdle
    /\ TransformIdle

SpecThreshold == InitThreshold /\ [][NextThreshold]_vars

InitAccuracy ==
    /\ AccuracyStart
    /\ LossIdle
    /\ GridIdle
    /\ DeployIdle
    /\ WindowIdle
    /\ FlowsIdle
    /\ PipeIdle
    /\ ThresholdIdle
    /\ FilterIdle
    /\ WeightsIdle
    /\ HeuristicIdle
    /\ CombinedIdle
    /\ TransformIdle

SpecAccuracy == InitAccuracy /\ [][NextAccuracy]_vars

InitFilter ==
    /\ FilterStart
    /\ LossIdle
    /\ GridIdle
    /\ DeployIdle
    /\ WindowIdle
    /\ FlowsIdle
    /\ PipeIdle
    /\ ThresholdIdle
    /\ AccuracyIdle
    /\ WeightsIdle
    /\ HeuristicIdle
    /\ CombinedIdle
    /\ TransformIdle

SpecFilter == InitFilter /\ [][NextFilter]_vars

InitWeights ==
    /\ WeightsStart
    /\ LossIdle
    /\ GridIdle
    /\ DeployIdle
    /\ WindowIdle
    /\ FlowsIdle
    /\ PipeIdle
    /\ ThresholdIdle
    /\ AccuracyIdle
    /\ FilterIdle
    /\ HeuristicIdle
    /\ CombinedIdle
    /\ TransformIdle

SpecWeights == InitWeights /\ [][NextWeights]_vars

InitHeuristic ==
    /\ HeuristicStart
    /\ LossIdle
    /\ GridIdle
    /\ DeployIdle
    /\ WindowIdle
    /\ FlowsIdle
    /\ PipeIdle
    /\ ThresholdIdle
    /\ AccuracyIdle
    /\ FilterIdle
    /\ WeightsIdle
    /\ CombinedIdle
    /\ TransformIdle

SpecHeuristic == InitHeuristic /\ [][NextHeuristic]_vars

InitCombined ==
    /\ CombinedStart
    /\ LossIdle
    /\ GridIdle
    /\ DeployIdle
    /\ WindowIdle
    /\ FlowsIdle
    /\ PipeIdle
    /\ ThresholdIdle
    /\ AccuracyIdle
    /\ FilterIdle
    /\ WeightsIdle
    /\ HeuristicIdle
    /\ TransformIdle

SpecCombined == InitCombined /\ [][NextCombined]_vars

InitTransform ==
    /\ TransformStart
    /\ LossIdle
    /\ GridIdle
    /\ DeployIdle
    /\ WindowIdle
    /\ FlowsIdle
    /\ PipeIdle
    /\ ThresholdIdle
    /\ AccuracyIdle
    /\ FilterIdle
    /\ WeightsIdle
    /\ HeuristicIdle
    /\ CombinedIdle

SpecTransform == InitTransform /\ [][NextTransform]_vars

====
